---- MODULE Spec2Model ----
(***************************************************************************)
(* Order lifecycle of the Strategy Simulator backend: placement with cash  *)
(* freezing, immediate and scheduled execution attempts, fills against the *)
(* latest market price and cancellation, as the README documents them      *)
(* ("Order Lifecycle and Funds/Position Handling").                        *)
(*                                                                         *)
(* Units.  A price is a whole number of half dollars, and money is a whole *)
(* number of 1/400 dollar, so that 0.5% of any notional is exact: a price  *)
(* p and a quantity q have notional p*q*200 and rate*notional = p*q.       *)
(***************************************************************************)
EXTENDS Integers, Sequences, FiniteSets, TLC

\* ---------------------------------------------------------------- bounds
MaxOrders == 3
MaxQty == 1
MaxOrdersUsers == 2
ScenarioOrders == 2
MaxOrdersPush == 2
MaxCalls == 2
MaxRequests == 2
MaxDialogs == 2
MaxTime == 1

\* ------------------------------------------------------------- constants
CommissionRateNum == 5
CommissionRateDen == 1000
MinCommission == 400
LotSize == 1
MinQuantity == 1
NotionalScale == 200

NoPrice == 0

Users == {"demo", "alice"}
SeededUsers == {"demo"}
Symbols == {"AAPL.US"}
Markets == {"US", "HK"}
SupportedMarket == "US"
Sides == {"BUY", "SELL"}
OrderTypes == {"MARKET", "LIMIT"}
Prices == {1, 600}
Quantities == 1..MaxQty
InitialCapitals == {120600}
LimitPrices == {4}

VARIABLES users, positions, orders, trades, placedEstimate, market, attempts,
          reply, pass, sessions, owed, panel

vars == <<users, positions, orders, trades, placedEstimate, market, attempts,
          reply, pass, sessions, owed, panel>>

\* what the model records beside the ledger, the prices and the attempts
observed == <<reply, pass, sessions, owed, panel>>

\* ------------------------------------------------------------ arithmetic
Max(a, b) == IF a >= b THEN a ELSE b

Min(a, b) == IF a <= b THEN a ELSE b

RECURSIVE Gcd(_, _)
Gcd(a, b) == IF b = 0 THEN a ELSE Gcd(b, a % b)

Notional(p, q) == p * q * NotionalScale

CommissionRateOnly(n) == (CommissionRateNum * n) \div CommissionRateDen

Commission(n) == Max((CommissionRateNum * n) \div CommissionRateDen, MinCommission)

RefPrice(limit, mkt) ==
    IF limit # NoPrice /\ mkt # NoPrice THEN Min(limit, mkt)
    ELSE IF limit # NoPrice THEN limit ELSE mkt

FreezeNotionalOnly(ref, q) == Notional(ref, q)

FreezeEstimate(ref, q) == Notional(ref, q) + Commission(Notional(ref, q))

\* avg_cost is kept as a reduced fraction num/den of money per share
AvgCost(num, den) ==
    IF num = 0 THEN [num |-> 0, den |-> 1]
    ELSE [num |-> num \div Gcd(num, den), den |-> den \div Gcd(num, den)]

NewAvgCostWithCommission(pos, n, q) ==
    AvgCost(pos.avg_cost.num * pos.quantity + (n + Commission(n)) * pos.avg_cost.den,
            pos.avg_cost.den * (pos.quantity + q))

NewAvgCost(pos, n, q) ==
    AvgCost(pos.avg_cost.num * pos.quantity + n * pos.avg_cost.den,
            pos.avg_cost.den * (pos.quantity + q))

\* ------------------------------------------------- the trading panel
\* TradingPanel.tsx: the component's state, its props, the browser's
\* localStorage, its requests in flight and the calls of onPlace it has made
NoUser == 0
UserIds == {1, 2}
NoToken == ""
NoExpiry == 0
PanelPrices == {0, 2}
PanelLastPrices == {0, 2}
PanelQuantities == {0, 2}
PanelCash == {4}
PanelFrozen == {0, 2}
PanelAvailable == {0, 2}
Texts == {"", "x"}

\* the session token the server issues to user uid
TokenOf(uid) == IF uid = 1 THEN "token1" ELSE "token2"

NoSession == [token |-> NoToken, expiry |-> NoExpiry]

\* expires_at of a session the login creates now
SessionExpiry(now) == MaxTime + 1

Undefined == [defined |-> FALSE, value |-> 0]

PanelMounted ==
    [orderType |-> "LIMIT", price |-> 2, quantity |-> 2,
     showPasswordDialog |-> FALSE, pendingTrade |-> "none",
     dialogPassword |-> "", dialogUsername |-> "",
     authSessionToken |-> NoToken, isAuthenticated |-> FALSE, authExpiry |-> NoExpiry,
     user |-> NoUser, current_cash |-> 4, frozen_cash |-> 0, available |-> 0,
     lastPrice |-> 0,
     storage |-> [u \in UserIds |-> NoSession],
     issued |-> {}, now |-> 0, requests |-> {}, calls |-> <<>>, dialogs |-> 0]

\* ------------------------------------------------------------ the ledger
OrderIds == 1..Len(orders)

PendingIds == {i \in OrderIds : orders[i].status = "PENDING"}

TradesOf(i) == {t \in trades : t.order = i}

Init ==
    /\ users \in [Users -> {[initial_cash |-> c, current_cash |-> c, frozen_cash |-> 0] :
                               c \in InitialCapitals}]
    /\ positions = [u \in Users |-> [s \in Symbols |->
                       [quantity |-> 0, available_quantity |-> 0,
                        avg_cost |-> [num |-> 0, den |-> 1]]]]
    /\ orders = <<>>
    /\ trades = {}
    /\ placedEstimate = <<>>
    /\ market \in [Symbols -> Prices]
    /\ attempts = {}
    /\ reply = [type |-> "snapshot", order |-> 0, reason |-> "none"]
    /\ pass = [queue |-> {}, failed |-> {}]
    /\ sessions = SeededUsers
    /\ owed = {}
    /\ panel = PanelMounted

\* ------------------------------------------------------------- placement
ValidMarket(m) == m = SupportedMarket

ValidQuantityLotOnly(q) == q % LotSize = 0

ValidQuantity(q) == q >= MinQuantity /\ q % LotSize = 0

HasFundsOfCash(u, est) == est <= users[u].current_cash

HasFunds(u, est) == est <= users[u].current_cash - users[u].frozen_cash

HasPosition(u, s, q) == positions[u][s].available_quantity >= q

NewOrder(u, s, m, side, type, limit, q) ==
    [user |-> u, symbol |-> s, market |-> m, side |-> side, order_type |-> type,
     price |-> limit, quantity |-> q, filled_quantity |-> 0, status |-> "PENDING"]

\* The session's handler serves one message at a time: a placement starts only
\* when the immediate attempt of the session's previous placement has ended.
SessionIdle(u) ==
    \A a \in attempts : a.kind = "immediate" => orders[a.order].user # u

\* fetched is the price the placement obtained, or NoPrice when the source failed
PlaceOrder(u, s, m, side, type, limit, q, fetched) ==
    LET ref == RefPrice(limit, fetched)
        est == FreezeEstimate(ref, q)
        accepted == /\ ValidMarket(m)
                    /\ ValidQuantity(q)
                    /\ ref # NoPrice
                    /\ IF side = "BUY" THEN HasFunds(u, est) ELSE HasPosition(u, s, q)
    IN  /\ Len(orders) < MaxOrders
        /\ u \in sessions
        /\ SessionIdle(u)
        /\ IF accepted
           THEN /\ users' = IF side = "BUY"
                            THEN [users EXCEPT ![u].frozen_cash = @ + est]
                            ELSE users
                /\ orders' = Append(orders, NewOrder(u, s, m, side, type, limit, q))
                /\ placedEstimate' = Append(placedEstimate, IF side = "BUY" THEN est ELSE 0)
                /\ attempts' = attempts \cup
                       {[order |-> Len(orders) + 1, kind |-> "immediate", price |-> NoPrice]}
           ELSE UNCHANGED <<users, orders, placedEstimate, attempts>>
        /\ UNCHANGED <<positions, trades, market>>

\* ------------------------------------------------------------- execution
MatchesAtOrBeyondLimit(o, p) ==
    \/ o.order_type = "MARKET"
    \/ o.order_type = "LIMIT" /\ o.side = "BUY" /\ p >= o.price
    \/ o.order_type = "LIMIT" /\ o.side = "SELL" /\ p <= o.price

Matches(o, p) ==
    \/ o.order_type = "MARKET"
    \/ o.order_type = "LIMIT" /\ o.side = "BUY" /\ p <= o.price
    \/ o.order_type = "LIMIT" /\ o.side = "SELL" /\ p >= o.price

ExecutionPrice(o, fetched) == fetched

StatusCancelledOnPriceFailure(o) == "CANCELLED"

StatusAfterPriceFailure(o) == o.status

CanExecuteAny(o) == TRUE

CanExecuteUnlessFilled(o) == o.status # "FILLED"

CanExecute(o) == o.status = "PENDING"

SellAllowedAlways(pos, q) == TRUE

SellAllowed(pos, q) == pos.available_quantity >= q

CashAfterBuyNotional(cash, n, c) == cash - n

CashAfterBuy(cash, n, c) == cash - (n + c)

CashAfterSellGross(cash, n, c) == cash + n

CashAfterSell(cash, n, c) == cash + (n - c)

ReleaseEstimateOnFill(frozen, est, n, c) == Max(frozen - est, 0)

ReleaseNotionalOnFill(frozen, est, n, c) == Max(frozen - n, 0)

ReleaseOnFill(frozen, est, n, c) == Max(frozen - (n + c), 0)

FilledQuantityNone(o) == o.filled_quantity

FilledQuantity(o) == o.quantity

\* id tells apart the Trade rows of one order
TradeOf(i, p, c) ==
    [order |-> i, id |-> Cardinality(TradesOf(i)) + 1, user |-> orders[i].user, symbol |-> orders[i].symbol,
     side |-> orders[i].side, price |-> p, quantity |-> orders[i].quantity,
     commission |-> c]

WillFill(i, p) ==
    /\ CanExecute(orders[i])
    /\ Matches(orders[i], p)
    /\ orders[i].side = "SELL" =>
           SellAllowed(positions[orders[i].user][orders[i].symbol], orders[i].quantity)

\* the whole mutation set of one fill of order i at price p
OwnerSeeded(o) == CHOOSE u \in SeededUsers : TRUE

\* the user whose cash and positions an operation on order o reads and writes
Owner(o) == o.user

ExecuteFill(i, p) ==
    LET o == orders[i]
        u == Owner(o)
        s == o.symbol
        q == o.quantity
        n == Notional(p, q)
        c == Commission(n)
        pos == positions[u][s]
    IN  /\ users' = IF o.side = "BUY"
                    THEN [users EXCEPT
                            ![u].current_cash = CashAfterBuy(@, n, c),
                            ![u].frozen_cash = ReleaseOnFill(@, placedEstimate[i], n, c)]
                    ELSE [users EXCEPT ![u].current_cash = CashAfterSell(@, n, c)]
        /\ positions' = IF o.side = "BUY"
                        THEN [positions EXCEPT ![u][s] =
                                [quantity |-> pos.quantity + q,
                                 available_quantity |-> pos.available_quantity + q,
                                 avg_cost |-> NewAvgCost(pos, n, q)]]
                        ELSE [positions EXCEPT ![u][s] =
                                [quantity |-> pos.quantity - q,
                                 available_quantity |-> pos.available_quantity - q,
                                 avg_cost |-> pos.avg_cost]]
        /\ trades' = trades \cup {TradeOf(i, p, c)}
        /\ orders' = [orders EXCEPT ![i].filled_quantity = FilledQuantity(o),
                                    ![i].status = "FILLED"]

\* the price lookup of the immediate attempt; result is NoPrice when it fails
FetchPrice(a, result) ==
    LET p == ExecutionPrice(orders[a.order], result)
    IN  /\ a \in attempts
        /\ a.price = NoPrice
        /\ IF p = NoPrice
           THEN /\ attempts' = attempts \ {a}
                /\ orders' = [orders EXCEPT ![a.order].status =
                                 StatusAfterPriceFailure(orders[a.order])]
           ELSE /\ attempts' = (attempts \ {a}) \cup {[a EXCEPT !.price = p]}
                /\ UNCHANGED orders
        /\ UNCHANGED <<users, positions, trades, placedEstimate, market>>

\* the fill step of an attempt that holds a price, under the user's lock
ApplyFill(a) ==
    /\ a \in attempts
    /\ a.price # NoPrice
    /\ attempts' = attempts \ {a}
    /\ IF WillFill(a.order, a.price)
       THEN ExecuteFill(a.order, a.price)
       ELSE UNCHANGED <<users, positions, orders, trades>>
    /\ UNCHANGED <<placedEstimate, market>>

\* --------------------------------------------------------------- sweeper
\* The scheduler takes up one PENDING order at a time and looks up its price;
\* result is NoPrice when the lookup fails.
SweepCandidatesNewest == {i \in PendingIds : i = Len(orders)}

\* the orders a pass of the scheduler processes, however often they were tried
SweepCandidates == PendingIds

SweepOrder(i, result) ==
    LET p == ExecutionPrice(orders[i], result)
    IN  /\ i \in SweepCandidates
        /\ \A a \in attempts : a.kind # "sweeper"
        /\ IF p = NoPrice
           THEN /\ orders' = [orders EXCEPT ![i].status =
                                 StatusAfterPriceFailure(orders[i])]
                /\ UNCHANGED attempts
           ELSE /\ attempts' = attempts \cup
                       {[order |-> i, kind |-> "sweeper", price |-> p]}
                /\ UNCHANGED orders
        /\ UNCHANGED <<users, positions, trades, placedEstimate, market>>

\* ---------------------------------------------------------- cancellation
CanCancelAny(o) == TRUE

CanCancelUnlessFilled(o) == o.status # "FILLED"

CanCancel(o) == o.status = "PENDING"

ReleaseNotionalOnly(o, latest) == Notional(RefPrice(o.price, latest), o.quantity)

ReleaseAmount(o, latest) == FreezeEstimate(RefPrice(o.price, latest), o.quantity)

ReleasesOnCancelAny(o) == TRUE

\* funds were frozen for BUY orders only
ReleasesOnCancel(o) == o.side = "BUY"

CancelOrder(i, latest) ==
    LET o == orders[i]
    IN  /\ i \in OrderIds
        /\ IF CanCancel(o) /\ (ReleasesOnCancel(o) => RefPrice(o.price, latest) # NoPrice)
           THEN /\ users' = IF ReleasesOnCancel(o)
                            THEN [users EXCEPT ![Owner(o)].frozen_cash =
                                     Max(@ - ReleaseAmount(o, latest), 0)]
                            ELSE users
                /\ orders' = [orders EXCEPT ![i].status = "CANCELLED"]
           ELSE UNCHANGED <<users, orders>>
        /\ UNCHANGED <<positions, trades, placedEstimate, market, attempts>>

\* ---------------------------------------------------------- price source
PriceMove(s, p) ==
    /\ p # market[s]
    /\ market' = [market EXCEPT ![s] = p]
    /\ UNCHANGED <<users, positions, orders, trades, placedEstimate, attempts>>

\* --------------------------------------------------------- specification
\* place_order payloads: the well-formed ones, and one each with another market,
\* with quantity 0 and with a quantity that is no multiple of the lot size
Requests ==
    [symbol : Symbols, market : {SupportedMarket}, side : Sides,
     order_type : {"MARKET"}, price : {NoPrice}, quantity : Quantities]
    \cup
    [symbol : Symbols, market : {SupportedMarket}, side : Sides,
     order_type : {"LIMIT"}, price : LimitPrices, quantity : Quantities]
    \cup
    [symbol : Symbols, market : Markets \ {SupportedMarket}, side : {"BUY"},
     order_type : {"MARKET"}, price : {NoPrice}, quantity : {1}]
    \cup
    [symbol : Symbols, market : {SupportedMarket}, side : {"BUY"},
     order_type : {"MARKET"}, price : {NoPrice}, quantity : {0}]

Place ==
    \E u \in Users, r \in Requests, ok \in BOOLEAN :
        PlaceOrder(u, r.symbol, r.market, r.side, r.order_type, r.price, r.quantity,
                   IF ok THEN market[r.symbol] ELSE NoPrice)

Fetch ==
    \E a \in attempts, ok \in BOOLEAN :
        FetchPrice(a, IF ok THEN market[orders[a.order].symbol] ELSE NoPrice)

Apply == \E a \in attempts : ApplyFill(a)

Sweep ==
    \E i \in OrderIds, ok \in BOOLEAN :
        SweepOrder(i, IF ok THEN market[orders[i].symbol] ELSE NoPrice)

Cancel ==
    \E i \in OrderIds, ok \in BOOLEAN :
        CancelOrder(i, IF ok THEN market[orders[i].symbol] ELSE NoPrice)

Tick == \E s \in Symbols, p \in Prices : PriceMove(s, p)

Next ==
    \/ Place /\ UNCHANGED observed
    \/ Fetch /\ UNCHANGED observed
    \/ Apply /\ UNCHANGED observed
    \/ Sweep /\ UNCHANGED observed
    \/ Cancel /\ UNCHANGED observed
    \/ Tick /\ UNCHANGED observed

Spec == Init /\ [][Next]_vars

\* ------------------------------------------------- the server's messages
\* reply is the last message or response the server sent: an error or a snapshot
\* for a place_order, order_filled or order_pending at the end of an attempt, and
\* the outcome of a cancel request.
Message(type, i) == [type |-> type, order |-> i, reason |-> "none"]

ErrorMessage(reason) == [type |-> "error", order |-> 0, reason |-> reason]

\* the first check of the placement that fails
RejectReason(u, s, m, side, limit, q, fetched) ==
    IF ~ValidMarket(m) THEN "UnsupportedMarket"
    ELSE IF ~ValidQuantity(q) THEN "InvalidQuantity"
    ELSE IF RefPrice(limit, fetched) = NoPrice THEN "PriceUnavailable"
    ELSE IF side = "BUY" THEN "InsufficientFunds"
    ELSE "InsufficientPosition"

CancelReply(o, i, cancelled) ==
    IF cancelled THEN Message("cancel_ok", i)
    ELSE IF o.status # "PENDING" THEN Message("NotPending", i)
    ELSE Message("PriceUnavailable", i)

AttemptReply(a, filled) ==
    IF filled THEN Message("order_filled", a.order)
    ELSE IF a.kind = "immediate" THEN Message("order_pending", a.order)
    ELSE reply

PlaceAndReply ==
    \E u \in Users, r \in Requests, ok \in BOOLEAN :
        /\ PlaceOrder(u, r.symbol, r.market, r.side, r.order_type, r.price, r.quantity,
                      IF ok THEN market[r.symbol] ELSE NoPrice)
        /\ reply' = IF Len(orders') > Len(orders)
                     THEN Message("snapshot", Len(orders'))
                     ELSE ErrorMessage(RejectReason(u, r.symbol, r.market, r.side, r.price,
                                                    r.quantity,
                                                    IF ok THEN market[r.symbol] ELSE NoPrice))

FetchAndReply ==
    \E a \in attempts, ok \in BOOLEAN :
        /\ FetchPrice(a, IF ok THEN market[orders[a.order].symbol] ELSE NoPrice)
        /\ reply' = IF \E b \in attempts' : b.order = a.order /\ b.kind = a.kind
                     THEN reply
                     ELSE AttemptReply(a, FALSE)

ApplyAndReply ==
    \E a \in attempts :
        /\ ApplyFill(a)
        /\ reply' = AttemptReply(a, orders'[a.order].status # orders[a.order].status)

CancelAndReply ==
    \E i \in OrderIds, ok \in BOOLEAN :
        /\ CancelOrder(i, IF ok THEN market[orders[i].symbol] ELSE NoPrice)
        /\ reply' = CancelReply(orders[i], i, orders'[i].status # orders[i].status)

NextReply ==
    \/ PlaceAndReply /\ UNCHANGED <<pass, sessions, owed, panel>>
    \/ FetchAndReply /\ UNCHANGED <<pass, sessions, owed, panel>>
    \/ ApplyAndReply /\ UNCHANGED <<pass, sessions, owed, panel>>
    \/ CancelAndReply /\ UNCHANGED <<pass, sessions, owed, panel>>
    \/ Sweep /\ UNCHANGED observed
    \/ Tick /\ UNCHANGED observed

SpecReply == Init /\ [][NextReply]_vars

\* ---------------------------------------------------- steps, as seen from outside
\* order i goes from PENDING to FILLED in this step
FillStep(i) == orders[i].status = "PENDING" /\ orders'[i].status = "FILLED"

\* order i goes from PENDING to CANCELLED in this step
CancelStep(i) == orders[i].status = "PENDING" /\ orders'[i].status = "CANCELLED"

\* attempt a, which holds a price, is applied in this step
Applied(a) == a.price # NoPrice /\ a \notin attempts'

\* the Trade rows this step inserts
NewTrades == trades' \ trades

LedgerUnchanged == UNCHANGED <<users, positions, orders, trades>>

PositionOf(i) == positions[orders[i].user][orders[i].symbol]

\* ------------------------------------------------------------------ C1
\* C1: an order record changes only while it is PENDING, the change takes it to
\* FILLED or CANCELLED and touches status and filled_quantity only; a FILLED or
\* CANCELLED order never changes again, and no order record is ever removed.
OrderTerminalOnce ==
    [][/\ Len(orders') >= Len(orders)
       /\ \A i \in OrderIds :
            orders'[i] # orders[i] =>
               /\ orders[i].status = "PENDING"
               /\ orders'[i].status \in {"FILLED", "CANCELLED"}
               /\ orders'[i] = [orders[i] EXCEPT
                                  !.status = orders'[i].status,
                                  !.filled_quantity = orders'[i].filled_quantity]]_vars

\* a FILLED and a CANCELLED order exist, and an attempt on an order that is no
\* longer PENDING is still to be applied
OrderTerminalOnceWitness ==
    /\ \E i \in OrderIds : orders[i].status = "FILLED"
    /\ \E i \in OrderIds : orders[i].status = "CANCELLED"
    /\ \E a \in attempts : a.price # NoPrice /\ orders[a.order].status # "PENDING"

\* ------------------------------------------------------------------ C2
\* C2: of the attempts (immediate or scheduled) that hold a price for the same
\* order, at most one fills it: an applied attempt either takes a PENDING order
\* with no Trade to FILLED and inserts its single Trade, or changes nothing in the
\* ledger; no order ever has two Trades.
AtMostOneFill ==
    [][/\ \A i \in OrderIds : Cardinality(TradesOf(i))' <= 1
       /\ \A a \in attempts :
            Applied(a) =>
               \/ /\ FillStep(a.order)
                  /\ TradesOf(a.order) = {}
                  /\ Cardinality(NewTrades) = 1
                  /\ \A t \in NewTrades : t.order = a.order
               \/ LedgerUnchanged]_vars

\* an order is FILLED while another attempt that fetched a matching price for it
\* is still to be applied
AtMostOneFillWitness ==
    \E a \in attempts :
        /\ a.price # NoPrice
        /\ orders[a.order].status = "FILLED"
        /\ Matches(orders[a.order], a.price)

\* ------------------------------------------------------------------ C3
\* C3: a cancel and a fill of the same order never both take effect: a CANCELLED
\* order has no Trade and stays as it is whatever attempt is applied later, and
\* every step that lowers a user's frozen_cash takes exactly one PENDING BUY
\* order of that user out of PENDING.
CancelExcludesFill ==
    [][/\ \A i \in OrderIds :
            /\ orders[i].status = "CANCELLED" => orders'[i] = orders[i]
            /\ orders'[i].status = "CANCELLED" => TradesOf(i)' = {}
       /\ \A u \in Users :
            users'[u].frozen_cash < users[u].frozen_cash =>
               Cardinality({i \in OrderIds :
                               /\ orders[i].user = u
                               /\ orders[i].side = "BUY"
                               /\ FillStep(i) \/ CancelStep(i)}) = 1]_vars

\* a BUY order is CANCELLED while an attempt that fetched a matching price for it
\* before is still to be applied
CancelExcludesFillWitness ==
    \E a \in attempts :
        /\ a.price # NoPrice
        /\ orders[a.order].status = "CANCELLED"
        /\ orders[a.order].side = "BUY"
        /\ Matches(orders[a.order], a.price)

\* ------------------------------------------------------------------ C4
\* C4: every user has current_cash >= 0 and frozen_cash >= 0 in every state.
CashNonNegative ==
    \A u \in Users : users[u].current_cash >= 0 /\ users[u].frozen_cash >= 0

\* ------------------------------------------------------------------ C5
\* C5: every position keeps 0 <= available_quantity <= quantity, and a SELL order
\* is filled only in a state where the position's available_quantity is at least
\* the order's quantity.
PositionWithinHolding ==
    [][/\ \A u \in Users, s \in Symbols :
            /\ 0 <= positions'[u][s].available_quantity
            /\ positions'[u][s].available_quantity <= positions'[u][s].quantity
       /\ \A i \in OrderIds :
            FillStep(i) /\ orders[i].side = "SELL" =>
               PositionOf(i).available_quantity >= orders[i].quantity]_vars

\* two SELL orders of one user and symbol were accepted with a combined quantity
\* above the holding: one is FILLED, and an attempt holds a matching price for the
\* other, which is PENDING and no longer covered by the position
PositionWithinHoldingWitness ==
    \E a \in attempts, j \in OrderIds :
        /\ a.price # NoPrice
        /\ j # a.order
        /\ orders[a.order].side = "SELL" /\ orders[j].side = "SELL"
        /\ orders[a.order].user = orders[j].user
        /\ orders[a.order].symbol = orders[j].symbol
        /\ orders[j].status = "FILLED"
        /\ orders[a.order].status = "PENDING"
        /\ Matches(orders[a.order], a.price)
        /\ PositionOf(a.order).available_quantity < orders[a.order].quantity

\* ------------------------------------------------------------------ C6
\* the cash effect of a BUY fill: current_cash falls by notional + commission of
\* the Trade the fill inserts
BuyFillCash(i) ==
    \A t \in NewTrades :
        /\ t.commission = Max((CommissionRateNum * t.price * t.quantity * NotionalScale)
                                 \div CommissionRateDen, MinCommission)
        /\ users'[orders[i].user].current_cash =
               users[orders[i].user].current_cash
                  - (t.price * t.quantity * NotionalScale + t.commission)

SellFillEffect ==
    [][\A i \in OrderIds :
          FillStep(i) /\ orders[i].side = "SELL" =>
             /\ PositionOf(i)'.quantity = PositionOf(i).quantity - orders[i].quantity
             /\ PositionOf(i)'.available_quantity =
                    PositionOf(i).available_quantity - orders[i].quantity
             /\ PositionOf(i)'.avg_cost = PositionOf(i).avg_cost
             /\ users'[orders[i].user].frozen_cash = users[orders[i].user].frozen_cash
             /\ Cardinality(NewTrades) = 1
             /\ \A t \in NewTrades :
                   /\ t.quantity = orders[i].quantity
                   /\ t.commission =
                          Max((CommissionRateNum * t.price * t.quantity * NotionalScale)
                                 \div CommissionRateDen, MinCommission)
                   /\ users'[orders[i].user].current_cash =
                          users[orders[i].user].current_cash
                             + (t.price * t.quantity * NotionalScale - t.commission)]_vars

\* a SELL order is FILLED at a price whose rate commission exceeds the minimum,
\* from a position bought at another price
SellFillEffectWitness ==
    \E t \in trades, b \in trades :
        /\ t.side = "SELL" /\ orders[t.order].status = "FILLED"
        /\ t.commission > MinCommission
        /\ b.side = "BUY" /\ b.user = t.user /\ b.symbol = t.symbol /\ b.price # t.price

\* ------------------------------------------------------------------ C8
\* what a Trade adds to its user's cash
CashDelta(t) ==
    IF t.side = "BUY"
    THEN 0 - (t.price * t.quantity * NotionalScale + t.commission)
    ELSE t.price * t.quantity * NotionalScale - t.commission

\* what a Trade adds to its position's quantity
QuantityDelta(t) == IF t.side = "BUY" THEN t.quantity ELSE 0 - t.quantity

RECURSIVE SumCashDelta(_)
SumCashDelta(T) ==
    IF T = {} THEN 0
    ELSE LET t == CHOOSE x \in T : TRUE IN CashDelta(t) + SumCashDelta(T \ {t})

RECURSIVE SumQuantityDelta(_)
SumQuantityDelta(T) ==
    IF T = {} THEN 0
    ELSE LET t == CHOOSE x \in T : TRUE IN QuantityDelta(t) + SumQuantityDelta(T \ {t})

\* C8: an order is FILLED exactly when one Trade references it, and then
\* filled_quantity = quantity = the Trade's quantity; a PENDING or CANCELLED order
\* has filled_quantity 0 and no Trade.  No fill is applied in part: cash and
\* position quantities are those the Trade rows account for.
FillIsWhole ==
    /\ \A i \in OrderIds :
          /\ orders[i].status = "FILLED" <=> Cardinality(TradesOf(i)) = 1
          /\ orders[i].status = "FILLED" =>
                /\ orders[i].filled_quantity = orders[i].quantity
                /\ \A t \in TradesOf(i) : t.quantity = orders[i].quantity
          /\ orders[i].status # "FILLED" =>
                /\ orders[i].filled_quantity = 0
                /\ TradesOf(i) = {}
    /\ \A t \in trades : t.order \in OrderIds
    /\ \A u \in Users :
          /\ users[u].current_cash =
                users[u].initial_cash + SumCashDelta({t \in trades : t.user = u})
          /\ \A s \in Symbols :
                positions[u][s].quantity =
                   SumQuantityDelta({t \in trades : t.user = u /\ t.symbol = s})

\* a FILLED BUY, a FILLED SELL and a CANCELLED order are in the ledger together
FillIsWholeWitness ==
    /\ \E i \in OrderIds : orders[i].status = "FILLED" /\ orders[i].side = "BUY"
    /\ \E i \in OrderIds : orders[i].status = "FILLED" /\ orders[i].side = "SELL"
    /\ \E i \in OrderIds : orders[i].status = "CANCELLED"

\* ------------------------------------------------------------------ C9
\* the limit condition of order o at price p
LimitCondition(o, p) ==
    IF o.side = "BUY" THEN p <= o.price ELSE p >= o.price

\* every fill is the work of an applied attempt, at the price the attempt fetched;
\* a price an attempt holds is the market price at the time of its lookup
FillsAtFetchedPrice ==
    /\ \A a \in attempts' \ attempts :
          a.price # NoPrice => a.price = market[orders[a.order].symbol]
    /\ \A i \in OrderIds :
          FillStep(i) =>
             \E a \in attempts :
                /\ a.order = i
                /\ Applied(a)
                /\ \A t \in NewTrades : t.price = a.price
                /\ orders[i].order_type = "LIMIT" => LimitCondition(orders[i], a.price)

\* an applied attempt on a PENDING LIMIT order whose condition fails changes nothing
UnmatchedLimitUntouched ==
    \A a \in attempts :
        ( /\ Applied(a)
          /\ orders[a.order].status = "PENDING"
          /\ orders[a.order].order_type = "LIMIT"
          /\ ~LimitCondition(orders[a.order], a.price) ) => LedgerUnchanged

\* C9 as stated: LIMIT orders fill only under their limit condition and at the
\* fetched price, an unmatched attempt changes nothing, and an attempt that holds
\* a price for a PENDING MARKET order fills it at that price.
MarketAlwaysFills ==
    [][/\ FillsAtFetchedPrice
       /\ UnmatchedLimitUntouched
       /\ \A a \in attempts :
            ( /\ Applied(a)
              /\ orders[a.order].status = "PENDING"
              /\ orders[a.order].order_type = "MARKET" ) =>
                 /\ FillStep(a.order)
                 /\ \A t \in NewTrades : t.price = a.price]_vars

\* C9 as amended: the same, except that a MARKET SELL is filled only when the
\* position's available_quantity covers its quantity at fill time.
MarketFillsWhenCovered ==
    [][/\ FillsAtFetchedPrice
       /\ UnmatchedLimitUntouched
       /\ \A a \in attempts :
            ( /\ Applied(a)
              /\ orders[a.order].status = "PENDING"
              /\ orders[a.order].order_type = "MARKET"
              /\ orders[a.order].side = "SELL" =>
                    PositionOf(a.order).available_quantity >= orders[a.order].quantity ) =>
                 /\ FillStep(a.order)
                 /\ Cardinality(NewTrades) = 1
                 /\ \A t \in NewTrades : t.price = a.price]_vars

\* a LIMIT order is FILLED at a price that is not its limit, and a PENDING MARKET
\* SELL that the position no longer covers waits with a fetched price
MarketFillsWhenCoveredWitness ==
    /\ \E t \in trades :
          /\ orders[t.order].order_type = "LIMIT"
          /\ orders[t.order].status = "FILLED"
          /\ t.price # orders[t.order].price
    /\ \E a \in attempts :
          /\ a.price # NoPrice
          /\ orders[a.order].status = "PENDING"
          /\ orders[a.order].order_type = "MARKET"
          /\ orders[a.order].side = "SELL"
          /\ PositionOf(a.order).available_quantity < orders[a.order].quantity

QueueAbortOnFailure(queue, i, failed) == IF failed THEN {} ELSE queue \ {i}

\* what is left of a pass after order i was visited, its price lookup failed or not
QueueAfterVisit(queue, i, failed) == queue \ {i}

\* a pass begins with the orders that are PENDING
PassBegin ==
    /\ pass.queue = {}
    /\ \A a \in attempts : a.kind # "sweeper"
    /\ pass' = [queue |-> SweepCandidates, failed |-> {}]
    /\ UNCHANGED <<users, positions, orders, trades, placedEstimate, market, attempts>>

\* the pass visits order i of its queue, in any order; an order that is no
\* longer PENDING is skipped
PassVisit(i, result) ==
    LET failed == i \in SweepCandidates /\ ExecutionPrice(orders[i], result) = NoPrice
    IN  /\ i \in pass.queue
        /\ \A a \in attempts : a.kind # "sweeper"
        /\ IF i \in SweepCandidates
           THEN SweepOrder(i, result)
           ELSE UNCHANGED <<users, positions, orders, trades, placedEstimate, market,
                            attempts>>
        /\ pass' = [queue |-> QueueAfterVisit(pass.queue, i, failed),
                    failed |-> IF failed THEN pass.failed \cup {i} ELSE pass.failed]

Begin == PassBegin /\ UNCHANGED <<reply, sessions, owed, panel>>

Visit ==
    \E i \in OrderIds, ok \in BOOLEAN :
        /\ PassVisit(i, IF ok THEN market[orders[i].symbol] ELSE NoPrice)
        /\ UNCHANGED <<reply, sessions, owed, panel>>

NextPass ==
    \/ Place /\ UNCHANGED observed
    \/ Fetch /\ UNCHANGED observed
    \/ Apply /\ UNCHANGED observed
    \/ Begin
    \/ Visit
    \/ Cancel /\ UNCHANGED observed
    \/ Tick /\ UNCHANGED observed

SpecPass == Init /\ [][NextPass]_vars

\* ------------------------------------------------------ several users
\* a bootstrap message with another username opens that user's session
Bootstrap(u) ==
    /\ u \in Users \ sessions
    /\ sessions' = sessions \cup {u}
    /\ UNCHANGED <<users, positions, orders, trades, placedEstimate, market, attempts,
                   reply, pass, owed, panel>>

NextUsers ==
    \/ \E u \in Users : Bootstrap(u)
    \/ Len(orders) < MaxOrdersUsers /\ Place /\ UNCHANGED observed
    \/ Fetch /\ UNCHANGED observed
    \/ Apply /\ UNCHANGED observed
    \/ Sweep /\ UNCHANGED observed
    \/ Cancel /\ UNCHANGED observed
    \/ Tick /\ UNCHANGED observed

SpecUsers == Init /\ [][NextUsers]_vars

\* ------------------------------------------------- a session at round prices
\* 100000.00 USD, prices 188.00 and 196.00, limits 190.00 and 195.00, 10 shares
ScenarioCapitals == {40000000}
ScenarioPrices == {376, 392}
ScenarioLimits == {380, 390}
ScenarioQuantities == {10}

ScenarioRequests ==
    [symbol : Symbols, market : {SupportedMarket}, side : Sides,
     order_type : {"LIMIT"}, price : ScenarioLimits, quantity : ScenarioQuantities]

InitScenario ==
    /\ users \in [Users -> {[initial_cash |-> c, current_cash |-> c, frozen_cash |-> 0] :
                               c \in ScenarioCapitals}]
    /\ positions = [u \in Users |-> [s \in Symbols |->
                       [quantity |-> 0, available_quantity |-> 0,
                        avg_cost |-> [num |-> 0, den |-> 1]]]]
    /\ orders = <<>>
    /\ trades = {}
    /\ placedEstimate = <<>>
    /\ market \in [Symbols -> ScenarioPrices]
    /\ attempts = {}
    /\ reply = [type |-> "snapshot", order |-> 0, reason |-> "none"]
    /\ pass = [queue |-> {}, failed |-> {}]
    /\ sessions = SeededUsers
    /\ owed = {}
    /\ panel = PanelMounted

PlaceScenario ==
    \E u \in Users, r \in ScenarioRequests, ok \in BOOLEAN :
        /\ Len(orders) < ScenarioOrders
        /\ PlaceOrder(u, r.symbol, r.market, r.side, r.order_type, r.price, r.quantity,
                      IF ok THEN market[r.symbol] ELSE NoPrice)

TickScenario == \E s \in Symbols, p \in ScenarioPrices : PriceMove(s, p)

NextScenario ==
    \/ PlaceScenario /\ UNCHANGED observed
    \/ Fetch /\ UNCHANGED observed
    \/ Apply /\ UNCHANGED observed
    \/ Sweep /\ UNCHANGED observed
    \/ Cancel /\ UNCHANGED observed
    \/ TickScenario /\ UNCHANGED observed

SpecScenario == InitScenario /\ [][NextScenario]_vars

\* ------------------------------------------------------- snapshot pushes
OwedAfterNone(due, i) == due

\* the orders whose fill or cancel a snapshot is still to follow
OwedAfter(due, i) == due \cup {i}

\* what a snapshot computed now shows of order i and of its user's balances
SnapshotView(i) ==
    [type |-> "snapshot", order |-> i, reason |-> "none",
     status |-> orders[i].status,
     current_cash |-> users[Owner(orders[i])].current_cash,
     frozen_cash |-> users[Owner(orders[i])].frozen_cash]

ApplyAndPush ==
    \E a \in attempts :
        /\ ApplyFill(a)
        /\ IF orders'[a.order].status # orders[a.order].status
           THEN /\ reply' = Message("order_filled", a.order)
                /\ owed' = OwedAfter(owed, a.order)
           ELSE UNCHANGED <<reply, owed>>
        /\ UNCHANGED <<pass, sessions, panel>>

CancelAndPush ==
    \E i \in OrderIds, ok \in BOOLEAN :
        /\ CancelOrder(i, IF ok THEN market[orders[i].symbol] ELSE NoPrice)
        /\ IF orders'[i].status # orders[i].status
           THEN /\ reply' = Message("cancel_ok", i)
                /\ owed' = OwedAfter(owed, i)
           ELSE UNCHANGED <<reply, owed>>
        /\ UNCHANGED <<pass, sessions, panel>>

\* the snapshot that follows the fill or cancel of order i is computed and sent
PushSnapshot(i) ==
    /\ i \in owed
    /\ reply' = SnapshotView(i)
    /\ owed' = owed \ {i}
    /\ UNCHANGED <<users, positions, orders, trades, placedEstimate, market, attempts,
                   pass, sessions, panel>>

NextPush ==
    \/ Len(orders) < MaxOrdersPush /\ Place /\ UNCHANGED observed
    \/ Fetch /\ UNCHANGED observed
    \/ ApplyAndPush
    \/ Sweep /\ UNCHANGED observed
    \/ CancelAndPush
    \/ \E i \in OrderIds : PushSnapshot(i)
    \/ Tick /\ UNCHANGED observed

\* the handler that sent order_filled, or cancelled, goes on to its push
PushFairness == \A i \in 1..MaxOrders : WF_vars(PushSnapshot(i))

SpecPush == Init /\ [][NextPush]_vars /\ PushFairness

\* ------------------------------------------- the trading panel's handlers
\* what the panel does not touch
server == <<users, positions, orders, trades, placedEstimate, market, attempts,
            reply, pass, sessions, owed>>

PayloadPriceAlways(orderType, price) == [defined |-> TRUE, value |-> price]

\* price: orderType === 'LIMIT' ? price : undefined
PayloadPrice(orderType, price) ==
    IF orderType = "LIMIT" THEN [defined |-> TRUE, value |-> price] ELSE Undefined

\* the orderData of handleBuy, handleSell and handlePasswordSubmit
Payload(p, side, token, dialog) ==
    [side |-> side, order_type |-> p.orderType,
     price |-> PayloadPrice(p.orderType, p.price), quantity |-> p.quantity,
     session_token |-> token, dialog |-> dialog]

\* user?.current_cash ?? 0
CashAvailable(p) == IF p.user = NoUser THEN 0 ELSE p.current_cash

\* Math.max(cashAvailable - frozenCash, 0), which Max Buyable is computed from
AvailableCash(p) ==
    Max(CashAvailable(p) - (IF p.user = NoUser THEN 0 ELSE p.frozen_cash), 0)

CanPlaceDirectAlways(p) == TRUE

\* isAuthenticated && authSessionToken
CanPlaceDirect(p) == p.isAuthenticated /\ p.authSessionToken # NoToken

\* the validations of handleBuy and handleSell, in their order
BuyBlocked(p) ==
    \/ p.orderType = "LIMIT" /\ p.price <= 0
    \/ p.quantity <= 0
    \/ p.price * p.quantity > CashAvailable(p)

SellBlocked(p) ==
    \/ p.orderType = "LIMIT" /\ p.price <= 0
    \/ p.quantity <= 0
    \/ p.quantity > p.available

\* handleBuy (side BUY) and handleSell (side SELL)
HandleTrade(side) ==
    /\ ~panel.showPasswordDialog
    /\ IF (side = "BUY" /\ BuyBlocked(panel)) \/ (side = "SELL" /\ SellBlocked(panel))
       THEN UNCHANGED panel
       ELSE IF CanPlaceDirect(panel)
       THEN /\ Len(panel.calls) < MaxCalls
            /\ panel' = [panel EXCEPT !.calls =
                            Append(@, Payload(panel, side, panel.authSessionToken, 0))]
       ELSE /\ panel.dialogs < MaxDialogs
            /\ panel' = [panel EXCEPT !.pendingTrade = side,
                                      !.showPasswordDialog = TRUE,
                                      !.dialogs = @ + 1]
    /\ UNCHANGED server

ClearAuthSession(p, uid) ==
    [p EXCEPT !.authSessionToken = NoToken,
              !.isAuthenticated = FALSE,
              !.authExpiry = NoExpiry,
              !.storage = IF uid # NoUser THEN [@ EXCEPT ![uid] = NoSession] ELSE @]

\* an id for a request, to tell apart two requests with the same content
FreeId(p) == CHOOSE n \in 1..MaxRequests : \A r \in p.requests : r.id # n

NoPayload == Payload(PanelMounted, "none", NoToken, 0)

\* the effect on [user?.id]: the stored session is verified or, expired, cleared
AuthEffect(p) ==
    LET saved == p.storage[p.user]
    IN  IF p.user # NoUser /\ saved.token # NoToken /\ saved.expiry # NoExpiry
        THEN IF saved.expiry > p.now
             THEN [p EXCEPT !.requests = @ \cup
                      {[kind |-> "verify", id |-> FreeId(p), uid |-> p.user,
                        token |-> saved.token, payload |-> NoPayload]}]
             ELSE ClearAuthSession(p, p.user)
        ELSE p

\* the user prop changes; the effect runs with the render that follows
UserChange(uid) ==
    /\ uid # panel.user
    /\ Cardinality(panel.requests) < MaxRequests
    /\ panel' = AuthEffect([panel EXCEPT !.user = uid])
    /\ UNCHANGED server

\* a session of an earlier visit is in localStorage before the panel has a user
EarlierSession(uid, owner, expiry) ==
    /\ panel.user = NoUser
    /\ panel.storage[uid] = NoSession
    /\ panel' = [panel EXCEPT !.storage[uid] = [token |-> TokenOf(owner), expiry |-> expiry],
                              !.issued = @ \cup {TokenOf(owner)}]
    /\ UNCHANGED server

\* the response of /api/account/auth/verify
VerifyReturns(r, outcome) ==
    /\ r \in panel.requests
    /\ r.kind = "verify"
    /\ outcome = "valid" => r.token \in panel.issued
    /\ LET p == [panel EXCEPT !.requests = @ \ {r}]
       IN  panel' =
             IF outcome = "valid" /\ r.token = TokenOf(r.uid)
             THEN [p EXCEPT !.authSessionToken = r.token,
                            !.isAuthenticated = TRUE,
                            !.authExpiry = IF p.storage[r.uid].expiry # NoExpiry
                                           THEN p.storage[r.uid].expiry ELSE @]
             ELSE ClearAuthSession(p, r.uid)
    /\ UNCHANGED server

\* handlePasswordSubmit up to its fetch
HandlePasswordSubmit ==
    /\ panel.showPasswordDialog
    /\ IF panel.dialogPassword = "" \/ panel.dialogUsername = ""
          \/ panel.pendingTrade = "none"
       THEN UNCHANGED panel
       ELSE /\ Cardinality(panel.requests) < MaxRequests
            /\ panel' = [panel EXCEPT !.requests = @ \cup
                           {[kind |-> "login", id |-> FreeId(panel), uid |-> panel.user,
                             token |-> NoToken,
                             payload |-> Payload(panel, panel.pendingTrade, NoToken,
                                                 panel.dialogs)]}]
    /\ UNCHANGED server

\* the finally block of handlePasswordSubmit, and the dialog's cancel button
DialogReset(p) ==
    [p EXCEPT !.showPasswordDialog = FALSE, !.pendingTrade = "none",
              !.dialogPassword = "", !.dialogUsername = ""]

\* handlePasswordSubmit from the response of /api/account/auth/login on
LoginReturns(r, outcome) ==
    /\ r \in panel.requests
    /\ r.kind = "login"
    /\ outcome = "ok" => r.uid # NoUser /\ Len(panel.calls) < MaxCalls
    /\ LET p == [panel EXCEPT !.requests = @ \ {r}]
           token == TokenOf(r.uid)
           expiry == SessionExpiry(p.now)
       IN  panel' =
             IF outcome = "ok"
             THEN DialogReset(
                    [p EXCEPT !.authSessionToken = token,
                              !.isAuthenticated = TRUE,
                              !.authExpiry = expiry,
                              !.storage[r.uid] = [token |-> token, expiry |-> expiry],
                              !.issued = @ \cup {token},
                              !.calls = Append(@, [r.payload EXCEPT
                                                      !.session_token = token])])
             ELSE DialogReset(p)
    /\ UNCHANGED server

DialogCancel ==
    /\ panel.showPasswordDialog
    /\ panel' = DialogReset(panel)
    /\ UNCHANGED server

DialogInput(username, password) ==
    /\ panel.showPasswordDialog
    /\ panel' = [panel EXCEPT !.dialogUsername = username, !.dialogPassword = password]
    /\ UNCHANGED server

\* onSelectOrderType: MARKET takes the latest price when there is one
SelectOrderType(v) ==
    /\ ~panel.showPasswordDialog
    /\ panel' = [panel EXCEPT !.orderType = v,
                              !.price = IF v = "MARKET" /\ panel.lastPrice # 0
                                        THEN panel.lastPrice ELSE @]
    /\ UNCHANGED server

\* adjustPrice and handlePriceChange: no manual price in MARKET mode
PriceEdit(v) ==
    /\ ~panel.showPasswordDialog
    /\ panel' = IF panel.orderType = "MARKET" THEN panel ELSE [panel EXCEPT !.price = v]
    /\ UNCHANGED server

\* adjustQuantity and the quantity input
QuantityEdit(q) ==
    /\ ~panel.showPasswordDialog
    /\ panel' = [panel EXCEPT !.quantity = Max(0, q)]
    /\ UNCHANGED server

\* the lastPrices prop changes; in MARKET mode the effect refreshes the price
LastPriceChange(lp) ==
    /\ lp # panel.lastPrice
    /\ panel' = [panel EXCEPT !.lastPrice = lp,
                              !.price = IF panel.orderType = "MARKET" /\ lp # 0
                                        THEN lp ELSE @]
    /\ UNCHANGED server

\* the user and positions props change with a snapshot
PropsChange(cash, frozen, available) ==
    /\ panel' = [panel EXCEPT !.current_cash = cash, !.frozen_cash = frozen,
                              !.available = available]
    /\ UNCHANGED server

ClockTick ==
    /\ panel.now < MaxTime
    /\ panel' = [panel EXCEPT !.now = @ + 1]
    /\ UNCHANGED server

\* the panel's sessions: users change, stored sessions are verified, the
\* dialog logs in; the order form stays as mounted
NextPanelAuth ==
    \/ \E side \in Sides : HandleTrade(side)
    \/ \E uid \in UserIds : UserChange(uid)
    \/ \E uid \in UserIds, owner \in UserIds, e \in 1..MaxTime : EarlierSession(uid, owner, e)
    \/ \E r \in panel.requests, outcome \in {"valid", "invalid", "throws"} :
          VerifyReturns(r, outcome)
    \/ HandlePasswordSubmit
    \/ \E r \in panel.requests, outcome \in {"ok", "rejected", "throws"} :
          LoginReturns(r, outcome)
    \/ DialogCancel
    \/ \E username \in Texts, password \in Texts : DialogInput(username, password)
    \/ ClockTick

SpecPanelAuth == Init /\ [][NextPanelAuth]_vars

\* the panel's order form: one user, edits of the form, changes of the props,
\* placements on the direct path and through the dialog
NextPanelForm ==
    \/ \E side \in Sides : HandleTrade(side)
    \/ \E uid \in UserIds : panel.user = NoUser /\ UserChange(uid)
    \/ HandlePasswordSubmit
    \/ \E r \in panel.requests, outcome \in {"ok", "rejected", "throws"} :
          LoginReturns(r, outcome)
    \/ DialogCancel
    \/ \E username \in Texts, password \in Texts : DialogInput(username, password)
    \/ \E v \in OrderTypes : SelectOrderType(v)
    \/ \E v \in PanelPrices : PriceEdit(v)
    \/ \E q \in PanelQuantities : QuantityEdit(q)
    \/ \E lp \in PanelLastPrices : LastPriceChange(lp)
    \/ \E c \in PanelCash, f \in PanelFrozen, a \in PanelAvailable : PropsChange(c, f, a)

SpecPanelForm == Init /\ [][NextPanelForm]_vars

\* ------------------------------------------------------------------ C11
\* C11: a cancel request on an order that is FILLED or CANCELLED is answered
\* NotPending and changes no User, Position, Order or Trade record (so a second
\* cancel of a BUY order releases nothing); NotPending is the answer only for such
\* orders.
CancelNotPending ==
    [][\A i \in OrderIds :
          /\ ( /\ orders[i].status # "PENDING"
               /\ reply' # reply
               /\ reply'.order = i
               /\ reply'.type \in {"cancel_ok", "NotPending", "PriceUnavailable"} ) =>
                  /\ reply'.type = "NotPending"
                  /\ LedgerUnchanged
          /\ (reply' # reply /\ reply' = Message("NotPending", i)) =>
                  orders[i].status # "PENDING"]_vars

\* the second cancel of a CANCELLED BUY order was answered NotPending while cash
\* of another order is frozen
CancelNotPendingWitness ==
    /\ reply.type = "NotPending"
    /\ orders[reply.order].status = "CANCELLED"
    /\ orders[reply.order].side = "BUY"
    /\ users[orders[reply.order].user].frozen_cash > 0

\* ------------------------------------------------------------------ C12
\* C12: a place_order that is answered with an error inserts no order and changes
\* no cash, frozen cash, position or trade; every order that is inserted is for
\* the supported market, has a quantity >= 1 that is a multiple of the lot size,
\* and was covered at placement: a BUY by the cash that was not frozen, a SELL by
\* the position's available_quantity.
RejectedPlacementNoEffect ==
    [][/\ (reply' # reply /\ reply'.type = "error") =>
            /\ LedgerUnchanged
            /\ UNCHANGED <<attempts, placedEstimate>>
       /\ Len(orders') > Len(orders) =>
            LET o == orders'[Len(orders')]
            IN  /\ reply'.type # "error"
                /\ o.market = SupportedMarket
                /\ o.quantity >= MinQuantity
                /\ o.quantity % LotSize = 0
                /\ o.side = "BUY" =>
                      users'[o.user].frozen_cash - users[o.user].frozen_cash
                         <= users[o.user].current_cash - users[o.user].frozen_cash
                /\ o.side = "SELL" =>
                      positions[o.user][o.symbol].available_quantity >= o.quantity]_vars

\* a BUY placement was rejected for insufficient funds while an order is PENDING
RejectedPlacementNoEffectWitness ==
    /\ reply.type = "error"
    /\ reply.reason = "InsufficientFunds"
    /\ PendingIds # {}

\* the estimates a placement of order o can have frozen: the reference price is
\* taken with the looked-up market price or, the lookup failed, without it
PlacementEstimates(o) ==
    {Notional(ref, o.quantity)
        + Max((CommissionRateNum * Notional(ref, o.quantity)) \div CommissionRateDen,
              MinCommission) :
     ref \in {IF o.price # NoPrice /\ f # NoPrice THEN Min(o.price, f)
              ELSE IF o.price # NoPrice THEN o.price ELSE f :
              f \in {market[o.symbol], NoPrice}} \ {NoPrice}}

\* the order this step inserts
Placed == orders'[Len(orders')]

\* ------------------------------------------------------------------ C13
\* C13: frozen cash grows only in the step that inserts a BUY order of that user,
\* and that step is taken only if the amount it freezes fits the cash that is not
\* frozen in the state it is taken from, so that frozen_cash <= current_cash
\* after it, whatever placements, fills and cancels came before; a placement
\* answered InsufficientFunds changes nothing.
PlacementFitsUnfrozenCash ==
    [][/\ \A u \in Users :
            users'[u].frozen_cash > users[u].frozen_cash =>
                /\ Len(orders') = Len(orders) + 1
                /\ Placed.user = u /\ Placed.side = "BUY"
                /\ users'[u].frozen_cash - users[u].frozen_cash
                      <= users[u].current_cash - users[u].frozen_cash
                /\ users'[u].frozen_cash <= users'[u].current_cash
       /\ (reply' # reply /\ reply'.reason = "InsufficientFunds") =>
            /\ LedgerUnchanged
            /\ \E u \in Users, r \in Requests :
                  /\ r.side = "BUY"
                  /\ \E est \in PlacementEstimates(r) :
                        est > users[u].current_cash - users[u].frozen_cash]_vars

\* two BUY orders of one user are PENDING, their estimates are frozen, and a
\* further estimate that the cash alone would cover no longer fits
PlacementFitsUnfrozenCashWitness ==
    \E i, j \in PendingIds :
        /\ i < j
        /\ orders[i].side = "BUY" /\ orders[j].side = "BUY"
        /\ orders[i].user = orders[j].user
        /\ LET u == users[orders[i].user]
           IN  /\ u.frozen_cash = placedEstimate[i] + placedEstimate[j]
               /\ u.frozen_cash <= u.current_cash
               /\ \E p \in Prices :
                     /\ Notional(p, 1) + MinCommission <= u.current_cash
                     /\ Notional(p, 1) + MinCommission > u.current_cash - u.frozen_cash

\* ------------------------------------------------------------------ C14
\* C14: the step that inserts a BUY order adds to frozen_cash exactly
\* ref_price*qty + max(rate*ref_price*qty, min_commission), ref_price being the
\* smaller of limit and market price when both are known and else the known one;
\* the step that inserts a SELL order leaves frozen_cash alone; either inserts the
\* order PENDING with filled_quantity 0 and changes no current_cash, no position,
\* no trade and no other order.
PlacementEffect ==
    [][Len(orders') > Len(orders) =>
          /\ Len(orders') = Len(orders) + 1
          /\ \A i \in OrderIds : orders'[i] = orders[i]
          /\ Placed.status = "PENDING" /\ Placed.filled_quantity = 0
          /\ UNCHANGED <<positions, trades>>
          /\ \A u \in Users :
                /\ users'[u].current_cash = users[u].current_cash
                /\ (u # Placed.user \/ Placed.side = "SELL") =>
                       users'[u].frozen_cash = users[u].frozen_cash
                /\ (u = Placed.user /\ Placed.side = "BUY") =>
                       users'[u].frozen_cash - users[u].frozen_cash
                          \in PlacementEstimates(Placed)]_vars

\* a LIMIT BUY order placed with the market price below its limit is PENDING with
\* the estimate at the market price frozen, beside a PENDING SELL order
PlacementEffectWitness ==
    \E i, j \in PendingIds :
        /\ orders[i].side = "BUY" /\ orders[i].order_type = "LIMIT"
        /\ orders[j].side = "SELL"
        /\ orders[i].price > market[orders[i].symbol]
        /\ users[orders[i].user].frozen_cash =
              Notional(market[orders[i].symbol], orders[i].quantity) + MinCommission

SellCancelStatusOnly ==
    [][\A i \in OrderIds :
          (CancelStep(i) /\ orders[i].side = "SELL") =>
              /\ orders' = [orders EXCEPT ![i].status = "CANCELLED"]
              /\ UNCHANGED <<users, positions, trades>>]_vars

\* a SELL order is CANCELLED while a BUY order of the same user placed before it
\* is PENDING with its estimate frozen
SellCancelStatusOnlyWitness ==
    \E i \in OrderIds, j \in PendingIds :
        /\ j < i
        /\ orders[i].side = "SELL" /\ orders[i].status = "CANCELLED"
        /\ orders[j].side = "BUY" /\ orders[j].user = orders[i].user
        /\ users[orders[i].user].frozen_cash = placedEstimate[j]
        /\ placedEstimate[j] > 0

\* ------------------------------------------------------------------ C17
\* C17: the commission of every Trade is max(rate * notional, min_commission) with
\* notional = price * quantity of the trade, so it is never below min_commission
\* and never below rate * notional.
CommissionIsMaxOfRateAndMin ==
    \A t \in trades :
        LET n == t.price * t.quantity * NotionalScale
        IN  /\ t.commission * CommissionRateDen
                  = Max(CommissionRateNum * n, MinCommission * CommissionRateDen)
            /\ t.commission >= MinCommission
            /\ t.commission * CommissionRateDen >= CommissionRateNum * n

\* a BUY trade at the minimum commission and a SELL trade whose commission is the
\* rate's share of its notional
CommissionIsMaxOfRateAndMinWitness ==
    \E t1, t2 \in trades :
        /\ t1.side = "BUY" /\ t2.side = "SELL"
        /\ t1.commission = MinCommission
        /\ t1.commission * CommissionRateDen
              > CommissionRateNum * t1.price * t1.quantity * NotionalScale
        /\ t2.commission > MinCommission

\* ------------------------------------------------- scheduling of the sweeper
\* the scheduler takes up order i and its price lookup succeeds
SweepSucceeds(i) ==
    /\ i \in OrderIds
    /\ SweepOrder(i, market[orders[i].symbol])
    /\ UNCHANGED observed

\* the attempt the scheduler started reaches its fill step
ApplySweeper ==
    \E a \in attempts :
        /\ a.kind = "sweeper"
        /\ ApplyFill(a)
        /\ UNCHANGED observed

\* The scheduler runs at intervals for ever and each pass takes up every PENDING
\* order: an order that is PENDING again and again is taken up again and again,
\* and an attempt that was started is carried through.
SweeperFairness ==
    /\ \A i \in 1..MaxOrders : SF_vars(SweepSucceeds(i))
    /\ WF_vars(ApplySweeper)

SpecFair == Init /\ [][Next]_vars /\ SweeperFairness

\* order i is PENDING and would fill at the current market price
Fillable(i) ==
    /\ i \in PendingIds
    /\ Matches(orders[i], market[orders[i].symbol])
    /\ orders[i].side = "SELL" => PositionOf(i).available_quantity >= orders[i].quantity

\* ------------------------------------------------------------------ C18
\* C18: with the scheduler's passes scheduled fairly and their price lookups
\* succeeding, no order stays PENDING for ever while its match condition (and, for
\* a SELL, available_quantity >= quantity) holds: it is FILLED or CANCELLED; and
\* an order leaves PENDING only by the fill step of an attempt made for it, which
\* inserts its Trade, or by a cancel, which is no part of a price lookup, an
\* attempt or a price move.
SweeperRetriesUntilFilled ==
    /\ \A i \in 1..MaxOrders : []<>(~Fillable(i))
    /\ [][\A i \in OrderIds :
            (orders[i].status = "PENDING" /\ orders'[i].status # "PENDING") =>
                \/ /\ FillStep(i)
                   /\ \E a \in attempts : a.order = i /\ Applied(a)
                   /\ \E t \in NewTrades : t.order = i
                \/ /\ CancelStep(i)
                   /\ UNCHANGED <<attempts, market, trades, positions>>]_vars

\* the scheduler has taken up, at a matching price, an order that its immediate
\* attempt left PENDING beside an order that is FILLED
SweeperRetriesUntilFilledWitness ==
    \E a \in attempts :
        /\ a.kind = "sweeper"
        /\ Fillable(a.order)
        /\ Matches(orders[a.order], a.price)
        /\ \A b \in attempts : b.order = a.order => b = a
        /\ \E j \in OrderIds : orders[j].status = "FILLED"

\* ------------------------------------------------------------------ C19
\* C19: a visit of a pass takes the visited order out of the pass's queue and no
\* other, its price lookup failed or not, so that every order of the pass is
\* visited whatever the order of the visits; the attempt a visit starts is
\* applied before the next visit and before the next pass begins, and it fills
\* the order if the order is PENDING, its match condition holds at the price
\* looked up and, for a SELL, the position covers it.
PassContinuesAfterFailure ==
    [][/\ \A i \in pass.queue :
            (i \notin pass'.queue /\ pass'.queue \subseteq pass.queue) =>
                /\ pass'.queue = pass.queue \ {i}
                /\ pass.failed \subseteq pass'.failed
       /\ pass' # pass => \A a \in attempts : a.kind # "sweeper"
       /\ \A a \in attempts :
            (a.kind = "sweeper" /\ Applied(a)) =>
                /\ pass' = pass
                /\ ( /\ orders[a.order].status = "PENDING"
                     /\ Matches(orders[a.order], a.price)
                     /\ orders[a.order].side = "SELL" =>
                           PositionOf(a.order).available_quantity
                              >= orders[a.order].quantity ) =>
                       FillStep(a.order)]_vars

\* in one pass the price lookup for one order has failed, the pass has gone on to
\* another order, whose attempt holds a matching price, and a third order is
\* still to be visited
PassContinuesAfterFailureWitness ==
    \E i \in pass.failed, a \in attempts, k \in pass.queue :
        /\ i \in PendingIds
        /\ a.kind = "sweeper"
        /\ a.order # i /\ k # i /\ k # a.order
        /\ Fillable(a.order)
        /\ Matches(orders[a.order], a.price)

\* the records of user u differ between the two states of this step
Changed(u) ==
    \/ users'[u] # users[u]
    \/ positions'[u] # positions[u]
    \/ \E i \in 1..Len(orders') :
          orders'[i].user = u /\ (i > Len(orders) \/ orders'[i] # orders[i])
    \/ \E t \in (trades' \ trades) \cup (trades \ trades') : t.user = u

\* ------------------------------------------------------------------ C20
\* C20: a step that inserts or changes an order of one user (placement, fill,
\* cancel) leaves current_cash, frozen_cash, positions, orders and trades of every
\* other user unchanged, and no records of a user change without an order of
\* that user being inserted or changed.
UsersIndependent ==
    [][/\ \A i \in 1..Len(orders') :
            (i > Len(orders) \/ orders'[i] # orders[i]) =>
                \A v \in Users \ {orders'[i].user} : ~Changed(v)
       /\ \A u \in Users :
            Changed(u) =>
                \E i \in 1..Len(orders') :
                    /\ orders'[i].user = u
                    /\ i > Len(orders) \/ orders'[i] # orders[i]]_vars

\* an order of one user was filled while an order of another user, placed before
\* it, is PENDING with its estimate frozen and that user's cash untouched
UsersIndependentWitness ==
    \E i \in PendingIds, j \in OrderIds :
        /\ i < j
        /\ orders[i].user # orders[j].user
        /\ orders[i].side = "BUY"
        /\ orders[j].status = "FILLED"
        /\ users[orders[i].user].frozen_cash = placedEstimate[i]
        /\ users[orders[i].user].current_cash = users[orders[i].user].initial_cash
        /\ users[orders[j].user].current_cash < users[orders[j].user].initial_cash

\* ------------------------------------------------------------------ C22
\* C22: the fill step of an attempt for a BUY order, at the price p the attempt
\* holds, takes notional + commission of the fill from frozen_cash, clamped at 0:
\* frozen_cash' = max(frozen_cash - (p*quantity + max(rate*p*quantity, min)), 0),
\* and the Trade carries that price and commission.
BuyFillReleaseIsFillCost ==
    [][\A a \in attempts :
          (Applied(a) /\ FillStep(a.order) /\ orders[a.order].side = "BUY") =>
              LET u == orders[a.order].user
                  n == a.price * orders[a.order].quantity * NotionalScale
                  c == Max((CommissionRateNum * n) \div CommissionRateDen, MinCommission)
              IN  /\ users'[u].frozen_cash = Max(users[u].frozen_cash - (n + c), 0)
                  /\ \E t \in NewTrades :
                        t.order = a.order /\ t.price = a.price /\ t.commission = c]_vars

\* every order is a FILLED BUY order and part of what was frozen is still frozen
BuyFillReleaseIsFillCostWitness ==
    /\ orders # <<>>
    /\ \A i \in OrderIds : orders[i].side = "BUY" /\ orders[i].status = "FILLED"
    /\ \E u \in Users : users[u].frozen_cash > 0

\* the sum of the estimates frozen at the placement of the orders in I
RECURSIVE SumEstimates(_)
SumEstimates(I) ==
    IF I = {} THEN 0
    ELSE LET i == CHOOSE x \in I : TRUE IN placedEstimate[i] + SumEstimates(I \ {i})

\* ------------------------------------------------------------------ C24
\* C24: in every state a user's frozen_cash is the sum of the estimates frozen at
\* the placement of that user's PENDING BUY orders (0 when there is none).
FrozenIsSumOfEstimates ==
    \A u \in Users :
        users[u].frozen_cash =
            SumEstimates({i \in PendingIds : orders[i].user = u /\ orders[i].side = "BUY"})

\* ------------------------------------------------------------------ C25
\* C25: in every state each user's current_cash is initial_cash minus price*quantity
\* + commission of the user's BUY trades plus price*quantity - commission of the
\* SELL trades, and each position's quantity is the BUY trades' quantities minus
\* the SELL trades'; a step that inserts no Trade (placement, cancel, lookup,
\* price move) changes no current_cash and no position quantity, and no Trade
\* is ever removed or changed.
LedgerIsFoldOfTrades ==
    /\ [](\A u \in Users :
            /\ users[u].current_cash =
                  users[u].initial_cash + SumCashDelta({t \in trades : t.user = u})
            /\ \A s \in Symbols :
                  positions[u][s].quantity =
                     SumQuantityDelta({t \in trades : t.user = u /\ t.symbol = s}))
    /\ [][/\ trades \subseteq trades'
          /\ trades' = trades =>
                \A u \in Users :
                    /\ users'[u].current_cash = users[u].current_cash
                    /\ users'[u].initial_cash = users[u].initial_cash
                    /\ \A s \in Symbols :
                          positions'[u][s].quantity = positions[u][s].quantity]_vars

\* a BUY trade and a SELL trade are in the ledger while a third order, a BUY, is
\* PENDING with cash frozen
LedgerIsFoldOfTradesWitness ==
    /\ \E t1, t2 \in trades : t1.side = "BUY" /\ t2.side = "SELL" /\ t1.user = t2.user
    /\ \E i \in PendingIds :
          orders[i].side = "BUY" /\ users[orders[i].user].frozen_cash > 0

\* order 1 is the LIMIT BUY of 10 at 190.00, placed at market price 188.00 and
\* filled at 188.00
ScenarioBuyFilled ==
    /\ Len(orders) >= 1
    /\ orders[1].side = "BUY" /\ orders[1].order_type = "LIMIT"
    /\ orders[1].price = 380 /\ orders[1].quantity = 10
    /\ placedEstimate[1] = 755760
    /\ orders[1].status = "FILLED"
    /\ \E t \in TradesOf(1) : t.price = 376

\* order 2 is the LIMIT SELL of 10 at 195.00, filled at 196.00
ScenarioSellFilled ==
    /\ Len(orders) = 2
    /\ orders[2].side = "SELL" /\ orders[2].order_type = "LIMIT"
    /\ orders[2].price = 390 /\ orders[2].quantity = 10
    /\ orders[2].user = orders[1].user
    /\ orders[2].status = "FILLED"
    /\ \E t \in TradesOf(2) : t.price = 392

\* ------------------------------------------------------------------ C21
\* C21: from 100000.00 cash, nothing frozen and no position, the LIMIT BUY of 10
\* at 190.00 placed at market price 188.00 is filled by its immediate attempt at
\* 188.00 with commission 9.40, which gives cash 98110.60, quantity 10 and
\* avg_cost 188.00; the LIMIT SELL of 10 at 195.00 filled at 196.00 has
\* commission 9.80 and gives cash 100060.80 and a position with quantity 0 and
\* available_quantity 0; nothing is frozen after either fill.
ScenarioTrace ==
    /\ [](ScenarioBuyFilled =>
            LET u == orders[1].user
                pos == positions[u][orders[1].symbol]
            IN  /\ \A t \in TradesOf(1) : t.commission = 3760
                /\ Len(orders) = 1 =>
                      /\ users[u].current_cash = 39244240
                      /\ users[u].frozen_cash = 0
                      /\ pos.quantity = 10 /\ pos.available_quantity = 10
                      /\ pos.avg_cost.num = 75200 * pos.avg_cost.den
                /\ ScenarioSellFilled =>
                      /\ \A t \in TradesOf(2) : t.commission = 3920
                      /\ users[u].current_cash = 40024320
                      /\ users[u].current_cash - 39244240 = 780080
                      /\ users[u].frozen_cash = 0
                      /\ orders[1].symbol \in DOMAIN positions[u]
                      /\ pos.quantity = 0 /\ pos.available_quantity = 0)
    /\ [][\A a \in attempts :
            ( /\ Applied(a) /\ a.kind = "immediate" /\ a.order = 1 /\ a.price = 376
              /\ orders[1].side = "BUY" /\ orders[1].price = 380
              /\ orders[1].status = "PENDING" ) => FillStep(1)]_vars

\* both orders of the trace are FILLED
ScenarioTraceWitness == ScenarioBuyFilled /\ ScenarioSellFilled

\* ------------------------------------------------------------------ C23
\* C23: every order_filled message and every successful cancel is followed by a
\* snapshot for that order; a snapshot is computed when it is sent, after the
\* fill or cancel: it shows the order FILLED or CANCELLED, as it is, and the
\* user's current_cash and frozen_cash of that moment, and for a FILLED order the
\* cash is no longer the cash without the order's Trade.
SnapshotFollows ==
    /\ \A i \in 1..MaxOrders :
          /\ (reply = Message("order_filled", i)) ~> (reply.type = "snapshot" /\ reply.order = i)
          /\ (reply = Message("cancel_ok", i)) ~> (reply.type = "snapshot" /\ reply.order = i)
    /\ [][\A i \in OrderIds :
            /\ (orders'[i].status # orders[i].status) => i \in owed'
            /\ (i \in owed /\ i \notin owed') =>
                  /\ reply'.type = "snapshot" /\ reply'.order = i
                  /\ reply'.status = orders[i].status
                  /\ reply'.status \in {"FILLED", "CANCELLED"}
                  /\ reply'.current_cash = users[orders[i].user].current_cash
                  /\ reply'.frozen_cash = users[orders[i].user].frozen_cash
                  /\ LedgerUnchanged
                  /\ reply'.status = "FILLED" =>
                        /\ TradesOf(i) # {}
                        /\ reply'.current_cash =
                              users[orders[i].user].initial_cash
                                + SumCashDelta({t \in trades : t.user = orders[i].user})]_vars

\* the snapshot that followed a fill shows the order FILLED and the cash after
\* the fill, while the snapshot of a cancelled order is still to be sent
SnapshotFollowsWitness ==
    /\ reply.type = "snapshot"
    /\ reply.order \in OrderIds
    /\ reply.status = "FILLED"
    /\ reply.current_cash # users[orders[reply.order].user].initial_cash
    /\ \E j \in owed : orders[j].status = "CANCELLED"

\* this step calls onPlace
CallsOnPlace == Len(panel'.calls) = Len(panel.calls) + 1

\* the payload this step passes to onPlace
Called == panel'.calls[Len(panel'.calls)]

\* this step opens the password dialog
OpensDialog == panel'.showPasswordDialog /\ ~panel.showPasswordDialog

\* ------------------------------------------------------------------ C26
\* C26: every payload passed to onPlace, and every payload a login in flight will
\* pass, has a defined price exactly when its order_type is LIMIT, for BUY and
\* SELL, placed directly or through the password dialog.
PayloadPriceIffLimit ==
    /\ \A k \in 1..Len(panel.calls) :
          panel.calls[k].price.defined <=> panel.calls[k].order_type = "LIMIT"
    /\ \A r \in panel.requests :
          r.kind = "login" =>
             (r.payload.price.defined <=> r.payload.order_type = "LIMIT")

\* a MARKET order went through the dialog with no price and a LIMIT order of the
\* other side was placed directly with one
PayloadPriceIffLimitWitness ==
    /\ Len(panel.calls) = 2
    /\ panel.calls[1].dialog > 0 /\ panel.calls[1].order_type = "MARKET"
    /\ ~panel.calls[1].price.defined
    /\ panel.calls[2].dialog = 0 /\ panel.calls[2].order_type = "LIMIT"
    /\ panel.calls[2].price.defined
    /\ panel.calls[1].side # panel.calls[2].side

\* ------------------------------------------------------------------ C27
\* C27: onPlace is called with a token the server issued; handleBuy and
\* handleSell call it only when isAuthenticated and authSessionToken is not
\* empty, with that token, and otherwise open the dialog with the pending trade
\* and call nothing; through the dialog it is called only by a login that
\* returned ok; a login that fails or throws places nothing, leaves
\* isAuthenticated and the token as they were, and every login that returns
\* resets dialog, pendingTrade, password and username.
PlacesOnlyWithAcceptedToken ==
    [][/\ Len(panel'.calls) >= Len(panel.calls)
       /\ Len(panel'.calls) > Len(panel.calls) =>
            /\ CallsOnPlace
            /\ Called.session_token # NoToken
            /\ Called.session_token \in panel'.issued
            /\ Called.dialog = 0 =>
                  /\ panel.isAuthenticated
                  /\ Called.session_token = panel.authSessionToken
                  /\ ~OpensDialog
                  /\ panel'.requests = panel.requests
            /\ Called.dialog # 0 =>
                  \E r \in panel.requests \ panel'.requests :
                      r.kind = "login" /\ r.payload.dialog = Called.dialog
       /\ OpensDialog =>
            /\ panel'.calls = panel.calls
            /\ ~(panel.isAuthenticated /\ panel.authSessionToken # NoToken)
            /\ panel'.pendingTrade \in Sides
       /\ \A r \in panel.requests \ panel'.requests :
            r.kind = "login" =>
                /\ ~panel'.showPasswordDialog
                /\ panel'.pendingTrade = "none"
                /\ panel'.dialogPassword = "" /\ panel'.dialogUsername = ""
                /\ panel'.calls = panel.calls =>
                      /\ panel'.isAuthenticated = panel.isAuthenticated
                      /\ panel'.authSessionToken = panel.authSessionToken]_vars

\* a first dialog ended with no order, a second one placed its order, and the
\* next order was placed directly
PlacesOnlyWithAcceptedTokenWitness ==
    /\ panel.dialogs = 2
    /\ Len(panel.calls) = 2
    /\ panel.calls[1].dialog = 2
    /\ panel.calls[2].dialog = 0
    /\ panel.isAuthenticated

\* ------------------------------------------------------------------ C28
\* C28: no two calls of onPlace come from the same opening of the password
\* dialog.
OneCallPerDialog ==
    \A j, k \in 1..Len(panel.calls) :
        (j < k /\ panel.calls[j].dialog = panel.calls[k].dialog) =>
            panel.calls[j].dialog = 0

\* ------------------------------------------------------------------ C29
\* C29: whenever isAuthenticated is true, the panel has a user, authSessionToken
\* is the token the server issued to that user, and the expiry stored for that
\* user has not passed.
AuthenticatedForCurrentUser ==
    panel.isAuthenticated =>
        /\ panel.user # NoUser
        /\ panel.authSessionToken = TokenOf(panel.user)
        /\ panel.authSessionToken \in panel.issued
        /\ panel.storage[panel.user].expiry > panel.now

\* ------------------------------------------------------------------ C30
\* C30: handleBuy and handleSell neither call onPlace nor open the dialog when
\* quantity <= 0, when the type is LIMIT and price <= 0, for SELL when quantity
\* exceeds the position's available_quantity, or for BUY when price * quantity
\* exceeds max(current_cash - frozen_cash, 0).
BlocksInvalidOrders ==
    [][\A side \in Sides :
          ( \/ CallsOnPlace /\ Called.dialog = 0 /\ Called.side = side
            \/ OpensDialog /\ panel'.pendingTrade = side ) =>
              /\ panel.quantity > 0
              /\ ~(panel.orderType = "LIMIT" /\ panel.price <= 0)
              /\ side = "SELL" => panel.quantity <= panel.available
              /\ side = "BUY" =>
                    panel.price * panel.quantity
                       <= Max(panel.current_cash - panel.frozen_cash, 0)]_vars
====
